---- MODULE Spec2Model ----
(***************************************************************************)
(* Model of package authsession (sessions.go): the Auth object with its    *)
(* single process-wide oauthStateString, the signed "cookie-name" session  *)
(* cookie each user agent holds, and the handlers login, logout,           *)
(* handleGoogleCallback and the IsAuthenticated wrapper.                   *)
(***************************************************************************)
EXTENDS Integers, Sequences, FiniteSets, TLC

(***************************************************************************)
(* Bounds of the model.                                                    *)
(***************************************************************************)
NumKeys == 2

\* The user agents talking to the server.
Users == { "A", "B" }

(***************************************************************************)
(* Program constants.                                                      *)
(***************************************************************************)
KeySize == 16
StatusTemporaryRedirect == 307
StatusForbidden == 403
StatusOK == 200
CallbackMaxAge == 60 * 60 * 8
DefaultMaxAge == 86400 * 30

(***************************************************************************)
(* base64.URLEncoding.EncodeToString: three bytes become four characters   *)
(* of the URL-safe alphabet, a trailing group of one or two bytes is       *)
(* padded with "=".                                                        *)
(***************************************************************************)
encodeURL ==
  << "A", "B", "C", "D", "E", "F", "G", "H", "I", "J", "K", "L", "M",
     "N", "O", "P", "Q", "R", "S", "T", "U", "V", "W", "X", "Y", "Z",
     "a", "b", "c", "d", "e", "f", "g", "h", "i", "j", "k", "l", "m",
     "n", "o", "p", "q", "r", "s", "t", "u", "v", "w", "x", "y", "z",
     "0", "1", "2", "3", "4", "5", "6", "7", "8", "9", "-", "_" >>

Sextet(n) == encodeURL[n + 1]

RECURSIVE EncodeFrom(_, _)
EncodeFrom(b, i) ==
  LET n == Len(b) - i + 1 IN
  IF n <= 0 THEN ""
  ELSE IF n = 1 THEN
    Sextet(b[i] \div 4) \o Sextet((b[i] % 4) * 16) \o "=="
  ELSE IF n = 2 THEN
    Sextet(b[i] \div 4)
      \o Sextet((b[i] % 4) * 16 + (b[i + 1] \div 16))
      \o Sextet((b[i + 1] % 16) * 4) \o "="
  ELSE
    Sextet(b[i] \div 4)
      \o Sextet((b[i] % 4) * 16 + (b[i + 1] \div 16))
      \o Sextet((b[i + 1] % 16) * 4 + (b[i + 2] \div 64))
      \o Sextet(b[i + 2] % 64)
      \o EncodeFrom(b, i + 3)

EncodeToString(b) == EncodeFrom(b, 1)

(***************************************************************************)
(* createRandomKey(size): either rand.Read fails and (nil, err) is         *)
(* returned, or a slice of size random bytes.  The random source is        *)
(* represented by NumKeys byte patterns.                                   *)
(***************************************************************************)
NilBytes == << >>

RandomBytes(size) ==
  { [i \in 1..size |-> (k * 83 + i * (28 + k)) % 256] : k \in 1..NumKeys }

createRandomKey(size) ==
  { [b |-> NilBytes, err |-> TRUE] }
    \cup { [b |-> k, err |-> FALSE] : k \in RandomBytes(size) }

(***************************************************************************)
(* Session values are a dynamically typed bag (session.Values): each value *)
(* carries its Go type.                                                    *)
(***************************************************************************)
Bool(v) == [type |-> "bool", b |-> v]
Str(v) == [type |-> "string", s |-> v]

EmptyValues == [k \in {} |-> Bool(FALSE)]

SetValue(values, key, v) ==
  [k \in DOMAIN values \cup {key} |-> IF k = key THEN v ELSE values[k]]

(***************************************************************************)
(* The "cookie-name" cookie a user agent holds: absent, present but not    *)
(* decodable by the store, or a signed encoding of session values.         *)
(***************************************************************************)
NoCookie == [kind |-> "none", values |-> EmptyValues, maxAge |-> 0]
MalformedCookie == [kind |-> "malformed", values |-> EmptyValues, maxAge |-> 0]
ValidCookie(values, maxAge) ==
  [kind |-> "valid", values |-> values, maxAge |-> maxAge]

\* A cookie written through the store NewAuth hands back to the host
\* application, holding "authenticated" with a type other than bool.
WrongTypedCookie ==
  ValidCookie(SetValue(EmptyValues, "authenticated", Str("true")), DefaultMaxAge)

InitCookies == { NoCookie, MalformedCookie, WrongTypedCookie }

\* a.store.Get(r, "cookie-name"): the decoded session, or a new empty
\* session (with an error when the cookie does not decode).
storeGet(c) ==
  [ values |-> IF c.kind = "valid" THEN c.values ELSE EmptyValues,
    err |-> (c.kind = "malformed"),
    maxAge |-> DefaultMaxAge ]

\* session.Save(r, w): on success the response sets the cookie, on failure
\* the user agent keeps what it had.
sessionSave(old, values, maxAge, ok) ==
  IF ok THEN ValidCookie(values, maxAge) ELSE old

(***************************************************************************)
(* URLs the handlers redirect to.                                          *)
(***************************************************************************)
RootURL == [host |-> "", path |-> "/", state |-> ""]
AuthCodeURL(state) ==
  [host |-> "accounts.google.com", path |-> "/o/oauth2/auth", state |-> state]

(***************************************************************************)
(* The identity provider: results of Exchange and of the userinfo request. *)
(***************************************************************************)
NilToken == [nil |-> TRUE, accessToken |-> "", expired |-> FALSE]
Token(at, expired) == [nil |-> FALSE, accessToken |-> at, expired |-> expired]

\* token.Valid()
Valid(t) == ~t.nil /\ t.accessToken # "" /\ ~t.expired

\* a.googleOauthConfig.Exchange(ctx, code): an error and no token, or a
\* token that may already be expired.  An empty code is always refused.
ExchangeFailed == [token |-> NilToken, err |-> TRUE]

ExchangeResults ==
  { ExchangeFailed,
    [token |-> Token("ya29", TRUE), err |-> FALSE],
    [token |-> Token("ya29", FALSE), err |-> FALSE] }

Codes == { "", "abc" }

Exchange(code) == IF code = "" THEN { ExchangeFailed } ELSE ExchangeResults

\* The userinfo object the provider serves for the account that signs in.
UserProfile ==
  [ id |-> "42",
    email |-> "a@b.com",
    verified_email |-> TRUE,
    picture |-> "",
    name |-> "A B",
    given_name |-> "A",
    family_name |-> "B" ]

EmptyObject == [k \in {} |-> ""]
NilContents == [kind |-> "nil", obj |-> EmptyObject]
GarbageContents == [kind |-> "garbage", obj |-> EmptyObject]
JSONContents(obj) == [kind |-> "json", obj |-> obj]

Bodies == { GarbageContents, JSONContents(UserProfile) }

FetchResults ==
  { [kind |-> "get_error", contents |-> NilContents],
    [kind |-> "read_error", contents |-> NilContents] }
    \cup { [kind |-> "body", contents |-> b] : b \in Bodies }

\* json.Unmarshal(rawUserInfo, &userInfo) into the zero-valued struct.
Field(obj, key, zero) == IF key \in DOMAIN obj THEN obj[key] ELSE zero

Unmarshal(raw) ==
  [ err |-> (raw.kind # "json"),
    ID |-> Field(raw.obj, "id", ""),
    Email |-> Field(raw.obj, "email", ""),
    VerifiedEmail |-> Field(raw.obj, "verified_email", FALSE),
    Picture |-> Field(raw.obj, "picture", ""),
    FullName |-> Field(raw.obj, "name", ""),
    FirstName |-> Field(raw.obj, "given_name", ""),
    LastName |-> Field(raw.obj, "family_name", "") ]

\* The string header of a.oauthStateString as a request reads it: the data
\* word, "" standing for the nil pointer, and the length word.
Header(data, len) == [data |-> data, len |-> len]

\* line 213, state != a.oauthStateString: strings of different lengths
\* differ, two empty strings are equal, and otherwise the bytes are
\* compared through the data pointers; through a nil pointer that faults.
stateDiffers(state, held) ==
  IF Len(state) # held.len THEN [fault |-> FALSE, differs |-> TRUE]
  ELSE IF held.len = 0 THEN [fault |-> FALSE, differs |-> FALSE]
  ELSE IF held.data = "" THEN [fault |-> TRUE, differs |-> FALSE]
  ELSE [fault |-> FALSE, differs |-> (state # held.data)]

\* What getUserInfo gives for each outcome of the comparison and the fetch.
userInfoResult(cmp, fetch) ==
  IF cmp.fault
    THEN [contents |-> NilContents, err |-> FALSE, invalidState |-> FALSE, gets |-> 0,
          fault |-> TRUE]
  ELSE IF cmp.differs
    THEN [contents |-> NilContents, err |-> TRUE, invalidState |-> TRUE, gets |-> 0,
          fault |-> FALSE]
  ELSE IF fetch.kind = "body"
    THEN [contents |-> fetch.contents, err |-> FALSE, invalidState |-> FALSE, gets |-> 1,
          fault |-> FALSE]
    ELSE [contents |-> NilContents, err |-> TRUE, invalidState |-> FALSE, gets |-> 1,
          fault |-> FALSE]

\* getUserInfo comparing the state with the zero value instead of the field.
getUserInfoZeroState(held, state, token, fetch) ==
  userInfoResult(stateDiffers(state, Header("", 0)), fetch)

\* getUserInfo(state, token) with the header held read from
\* a.oauthStateString.
getUserInfo(held, state, token, fetch) ==
  userInfoResult(stateDiffers(state, held), fetch)

(***************************************************************************)
(* State.                                                                  *)
(***************************************************************************)
VARIABLES
  oauthStateString,  \* Auth.oauthStateString, shared by all requests: the
                     \* data word of its string header
  stateLen,          \* the length word of that string header
  cookie,            \* per user agent: its "cookie-name" cookie
  requestAt,         \* per user agent: where its request stands
  resp,              \* what the step just taken did and answered; NoResp
                     \* when the step ended no request
  latest,            \* history: what the latest login issued, kept when
                     \* no other request ran during that login and
                     \* dropped as soon as another login begins
  ended,             \* history: the request that ended last, kept while
                     \* requests run one after another and dropped as
                     \* soon as two of them overlap
  before,            \* history: the request that ended before last,
                     \* when the two form one of the sequences below
  initiated          \* history: some login has answered with a redirect

vars ==
  << oauthStateString, stateLen, cookie, requestAt, resp,
     latest, ended, before, initiated >>

NoResp ==
  [ op |-> "none", user |-> "", state |-> "", err |-> FALSE,
    redirects |-> << >>, status |-> 0,
    exchanges |-> 0, exchangeErr |-> FALSE, tokenValid |-> FALSE, fetches |-> 0, gets |-> 0,
    profile |-> EmptyObject, saves |-> 0, saved |-> FALSE,
    invalidState |-> FALSE, invoked |-> FALSE, panicked |-> FALSE ]

NoLatest == [any |-> FALSE, user |-> "", token |-> "", err |-> FALSE]

NoEnded == [op |-> "none", user |-> "", token |-> "", ok |-> FALSE]

NoBefore == [any |-> FALSE, op |-> "none", user |-> "", token |-> ""]

\* The status the response carries: the first WriteHeader, or 200 when the
\* handler returns without writing.
Status(redirects, forbidden) ==
  IF forbidden THEN StatusForbidden
  ELSE IF redirects # << >> THEN StatusTemporaryRedirect
  ELSE StatusOK

(***************************************************************************)
(* The requests followed. Every user agent sends logins, which write the   *)
(* one field the requests share. The session of a user agent lives in its  *)
(* own cookie and no request reads the cookie of another user agent, so    *)
(* the callbacks, logouts and protected calls of one user agent are        *)
(* followed, against the logins of all of them. A user agent awaits the    *)
(* answer to its request before it sends the next one.                     *)
(***************************************************************************)
Observed == { "A" }

\* No request of the user agent is running.
Idle == [pc |-> "idle", state |-> "", len |-> 0, err |-> FALSE,
         todo |-> {}, data |-> "", loaded |-> 0, code |-> "", exch |-> ExchangeFailed,
         alone |-> FALSE]

\* No request of another user agent is running.
Alone(u) == \A v \in Users \ { u } : requestAt[v].pc = "idle"

\* The requests in flight once user agent u has begun one that stands at
\* at: it began alone when no other was running, and the ones running are
\* no longer alone.
Started(u, at) ==
  [ v \in Users |->
      IF v = u THEN [at EXCEPT !.alone = Alone(u)]
      ELSE [requestAt[v] EXCEPT !.alone = FALSE] ]

\* The history once a request has begun: dropped when it overlaps another.
Begun(u) ==
  /\ ended' = IF Alone(u) THEN ended ELSE NoEnded
  /\ before' = IF Alone(u) THEN before ELSE NoBefore

\* The history once a request has ended that ran alone or not: rec is what
\* it did; the request before is kept when it was a login and rec is the
\* login of another user agent, neither with a failed key; when it was a
\* callback that compared its state equal to the header it read and rec is
\* one more with the same state; and when it was a saved logout and rec is
\* a logout of the same user agent.
Ended(alone, rec) ==
  /\ ended' = IF alone THEN rec ELSE NoEnded
  /\ before' =
       IF /\ alone
          /\ \/ /\ ended.op = "login" /\ rec.op = "login"
                /\ ended.user # rec.user /\ ended.ok /\ rec.ok
             \/ /\ ended.op = "callback" /\ rec.op = "callback"
                /\ ended.ok /\ rec.ok /\ rec.token = ended.token
                /\ ended.user = rec.user
             \/ /\ ended.op = "logout" /\ rec.op = "logout"
                /\ ended.ok /\ ended.user = rec.user
         THEN [any |-> TRUE, op |-> ended.op, user |-> ended.user, token |-> ended.token]
         ELSE NoBefore

(***************************************************************************)
(* NewAuth: the zero-valued oauthStateString; a user agent starts with no  *)
(* cookie, an undecodable one, or one written by the host application.     *)
(***************************************************************************)
Init ==
  /\ oauthStateString = ""
  /\ stateLen = 0
  /\ cookie \in { c \in [Users -> InitCookies] :
                    \A u \in Users \ Observed : c[u] = NoCookie }
  /\ requestAt = [u \in Users |-> Idle]
  /\ resp = NoResp
  /\ latest = NoLatest
  /\ ended = NoEnded
  /\ before = NoBefore
  /\ initiated = FALSE

(***************************************************************************)
(* login and handleGoogleCallback run statement by statement. Each request *)
(* runs in its own goroutine and a.oauthStateString is written (line 76)   *)
(* and read (lines 80 and 213) with no lock: the two words of its string   *)
(* header, data and length, are stored and loaded one by one, in either    *)
(* order, and the stores and loads of other requests may fall between      *)
(* them. The callback waits for the provider twice, in Exchange before it  *)
(* reads the header and in the userinfo request before it saves.           *)
(***************************************************************************)
Words == { "data", "len" }

\* A string header whose data is nil and whose length is not zero: reading
\* its bytes faults, the handler panics and net/http drops the request.
Fault == [fault |-> TRUE]

\* The string a header denotes. Every non-empty token has the same length,
\* EncodedLen(KeySize), so the data under a non-zero length is read whole.
StringOf(data, len) ==
  IF len = 0 THEN [fault |-> FALSE, s |-> ""]
  ELSE IF data = "" THEN Fault
  ELSE [fault |-> FALSE, s |-> data]

(***************************************************************************)
(* login, lines 71-76: generate the key, log a failure, and store the      *)
(* encoded key in a.oauthStateString.                                      *)
(***************************************************************************)
loginState(key) == EncodeToString(key.b)

\* base64.URLEncoding.EncodedLen(n), the length of the padded encoding.
EncodedLen(n) == ((n + 2) \div 3) * 4

\* What createRandomKey(16) can return, each with the state login makes of it.
LoginKeys ==
  { [err |-> key.err, state |-> loginState(key), len |-> EncodedLen(Len(key.b))] :
      key \in createRandomKey(KeySize) }

\* login, lines 80-82: a.oauthStateString goes into the provider URL and
\* the response redirects to it.
loginRedirects(held, err) == << AuthCodeURL(held) >>

\* The state parameter of the URL a login response redirects to.
URLState(redirects) == IF redirects = << >> THEN "" ELSE redirects[1].state

loginResp(u, held, err) ==
  LET redirects == loginRedirects(held, err) IN
    [ NoResp EXCEPT !.op = "login", !.user = u, !.err = err,
                    !.redirects = redirects,
                    !.status = Status(redirects, FALSE) ]

\* lines 71-74: the key is generated and encoded; a failure is logged.
LoginGenerate(u) ==
  /\ requestAt[u].pc = "idle"
  /\ \E key \in LoginKeys :
       requestAt' = Started(u, [Idle EXCEPT !.pc = "store", !.state = key.state,
                                            !.len = key.len, !.err = key.err,
                                            !.todo = Words])
  /\ resp' = NoResp
  /\ latest' = NoLatest
  /\ Begun(u)
  /\ UNCHANGED << oauthStateString, stateLen, cookie, initiated >>

\* What a request does once the last word is stored or loaded.
AfterWord(at, w, next) ==
  IF at.todo = { w } THEN [at EXCEPT !.pc = next, !.todo = Words]
  ELSE [at EXCEPT !.todo = at.todo \ { w }]

\* line 76: one word of the assignment to a.oauthStateString.
LoginStore(u) ==
  /\ requestAt[u].pc = "store"
  /\ \E w \in requestAt[u].todo :
       /\ oauthStateString' = IF w = "data" THEN requestAt[u].state ELSE oauthStateString
       /\ stateLen' = IF w = "len" THEN requestAt[u].len ELSE stateLen
       /\ requestAt' = [requestAt EXCEPT ![u] = AfterWord(requestAt[u], w, "load")]
  /\ resp' = NoResp
  /\ UNCHANGED << cookie, latest, ended, before, initiated >>

\* line 80: one word of the read of a.oauthStateString.
LoginLoad(u) ==
  /\ requestAt[u].pc = "load"
  /\ \E w \in requestAt[u].todo :
       requestAt' = [requestAt EXCEPT ![u] =
                     AfterWord([requestAt[u] EXCEPT
                                  !.data = IF w = "data" THEN oauthStateString ELSE @,
                                  !.loaded = IF w = "len" THEN stateLen ELSE @],
                               w, "redirect")]
  /\ resp' = NoResp
  /\ UNCHANGED << oauthStateString, stateLen, cookie, latest, ended, before, initiated >>

\* The answer of a login that read the string read from a.oauthStateString.
loginRespRead(u, read, err) ==
  IF read.fault
    THEN [ NoResp EXCEPT !.op = "login", !.user = u, !.err = err, !.panicked = TRUE ]
    ELSE loginResp(u, read.s, err)

\* lines 80-82: the URL is built from the string read and the response
\* redirects to it.
LoginRedirect(u) ==
  /\ requestAt[u].pc = "redirect"
  /\ resp' = loginRespRead(u, StringOf(requestAt[u].data, requestAt[u].loaded), requestAt[u].err)
  /\ requestAt' = [requestAt EXCEPT ![u] = Idle]
  /\ Ended(requestAt[u].alone,
           [ op |-> "login", user |-> u, token |-> URLState(resp'.redirects),
             ok |-> ~resp'.err /\ ~resp'.panicked ])
  /\ latest' = IF requestAt[u].alone /\ ~resp'.panicked
                 THEN [ any |-> TRUE, user |-> u, token |-> URLState(resp'.redirects),
                        err |-> resp'.err ]
                 ELSE NoLatest
  /\ initiated' = (initiated \/ ~resp'.panicked)
  /\ UNCHANGED << oauthStateString, stateLen, cookie >>


(***************************************************************************)
(* logout.                                                                 *)
(***************************************************************************)
logoutRedirects(saveOk) == IF saveOk THEN << RootURL >> ELSE << >>

\* logout writing its false under another key.
logoutOtherKey(c, saveOk) ==
  LET revoke(session) ==
        [ cookie |-> sessionSave(c, SetValue(session.values, "authentication", Bool(FALSE)),
                                 session.maxAge, saveOk),
          saves |-> 1,
          saved |-> saveOk,
          redirects |-> logoutRedirects(saveOk) ]
  IN revoke(storeGet(c))

\* logout flipping the value it finds instead of writing false.
logoutToggle(c, saveOk) ==
  LET revoke(session) ==
        [ cookie |-> sessionSave(c, SetValue(session.values, "authenticated",
                                             Bool("authenticated" \in DOMAIN session.values
                                                    /\ session.values["authenticated"] = Bool(FALSE))),
                                 session.maxAge, saveOk),
          saves |-> 1,
          saved |-> saveOk,
          redirects |-> logoutRedirects(saveOk) ]
  IN revoke(storeGet(c))

\* logout saving a fresh session instead of the loaded one.
logoutFresh(c, saveOk) ==
  LET revoke(session) ==
        [ cookie |-> sessionSave(c, SetValue(EmptyValues, "authenticated", Bool(FALSE)),
                                 session.maxAge, saveOk),
          saves |-> 1,
          saved |-> saveOk,
          redirects |-> logoutRedirects(saveOk) ]
  IN revoke(storeGet(c))

logout(c, saveOk) ==
  LET revoke(session) ==
        [ cookie |-> sessionSave(c, SetValue(session.values, "authenticated", Bool(FALSE)),
                                 session.maxAge, saveOk),
          saves |-> 1,
          saved |-> saveOk,
          redirects |-> logoutRedirects(saveOk) ]
  IN revoke(storeGet(c))

\* The requests in flight once a request of one statement sequence that
\* waits for nothing has run: the ones running are no longer alone.
Overlapped == [ v \in Users |-> [requestAt[v] EXCEPT !.alone = FALSE] ]

Logout(u) ==
  /\ requestAt[u].pc = "idle"
  /\ \E saveOk \in BOOLEAN :
       \E r \in { logout(cookie[u], saveOk) } :
         /\ cookie' = [cookie EXCEPT ![u] = r.cookie]
         /\ resp' = [ NoResp EXCEPT !.op = "logout", !.user = u,
                                    !.redirects = r.redirects,
                                    !.status = Status(r.redirects, FALSE),
                                    !.saves = r.saves,
                                    !.saved = r.saved ]
  /\ requestAt' = Overlapped
  /\ Ended(Alone(u), [op |-> "logout", user |-> u, token |-> "", ok |-> resp'.saved])
  /\ UNCHANGED << oauthStateString, stateLen, latest, initiated >>

(***************************************************************************)
(* IsAuthenticated(h): the wrapper around a protected handler h.           *)
(***************************************************************************)
\* The type assertion replaced by a test for presence.
authenticatedValueAnyType(values) ==
  IF "authenticated" \in DOMAIN values
    THEN [ auth |-> IF values["authenticated"].type = "bool"
                      THEN values["authenticated"].b ELSE TRUE,
           ok |-> TRUE ]
    ELSE [auth |-> FALSE, ok |-> FALSE]

authenticatedValue(values) ==
  IF "authenticated" \in DOMAIN values /\ values["authenticated"].type = "bool"
    THEN [auth |-> values["authenticated"].b, ok |-> TRUE]
    ELSE [auth |-> FALSE, ok |-> FALSE]

IsAuthenticated(c) ==
  LET check(a) ==
        IF ~a.ok \/ ~a.auth
          THEN [invoked |-> FALSE, forbidden |-> TRUE]
          ELSE [invoked |-> TRUE, forbidden |-> FALSE]
  IN check(authenticatedValue(storeGet(c).values))


Protected(u) ==
  /\ requestAt[u].pc = "idle"
  /\ \E r \in { IsAuthenticated(cookie[u]) } :
       resp' = [ NoResp EXCEPT !.op = "protected", !.user = u,
                               !.invoked = r.invoked,
                               !.status = Status(<< >>, r.forbidden) ]
  /\ requestAt' = Overlapped
  /\ Ended(Alone(u), [op |-> "protected", user |-> u, token |-> "", ok |-> resp'.invoked])
  /\ UNCHANGED << oauthStateString, stateLen, cookie, latest, initiated >>

(***************************************************************************)
(* handleGoogleCallback with a.oauthStateString = held, the requester's    *)
(* cookie c, the form values state and code, and the results the provider  *)
(* and the cookie encoder give in this request.                            *)
(***************************************************************************)
StateParams == { "" } \cup { EncodeToString(k) : k \in RandomBytes(KeySize) }

\* The state left out of the values put into the session.
callbackValuesNoState(values, userInfo, state) ==
  [ k \in DOMAIN values \cup { "authenticated", "id", "fullname", "email" } |->
      CASE k = "authenticated" -> Bool(TRUE)
        [] k = "id" -> Str(userInfo.ID)
        [] k = "fullname" -> Str(userInfo.FullName)
        [] k = "email" -> Str(userInfo.Email)
        [] OTHER -> values[k] ]

\* fullname taken from the given name.
callbackValuesGivenName(values, userInfo, state) ==
  [ k \in DOMAIN values \cup { "authenticated", "id", "fullname", "email", "state" } |->
      CASE k = "authenticated" -> Bool(TRUE)
        [] k = "id" -> Str(userInfo.ID)
        [] k = "fullname" -> Str(userInfo.FirstName)
        [] k = "email" -> Str(userInfo.Email)
        [] k = "state" -> Str(state)
        [] OTHER -> values[k] ]

\* lines 191-196: the values put into the session.
callbackValues(values, userInfo, state) ==
  [ k \in DOMAIN values \cup { "authenticated", "id", "fullname", "email", "state" } |->
      CASE k = "authenticated" -> Bool(TRUE)
        [] k = "id" -> Str(userInfo.ID)
        [] k = "fullname" -> Str(userInfo.FullName)
        [] k = "email" -> Str(userInfo.Email)
        [] k = "state" -> Str(state)
        [] OTHER -> values[k] ]

\* The redirect of the failed exchange left out.
exchangeRedirectsNone(exch) == << >>

\* lines 149-153: a failed exchange redirects to "/" and goes on.
exchangeRedirects(exch) == IF exch.err THEN << RootURL >> ELSE << >>

\* A validity check that rejects only the nil token and lets an expired one through.
tokenRejectedOnlyNil(token) == token.nil

\* A validity check that lets the nil token of a failed exchange through.
tokenRejectedUnlessNil(token) == ~token.nil /\ ~Valid(token)

\* lines 158-161: an invalid token ends the request.
tokenRejected(token) == ~Valid(token)

\* The return after a failed save left out.
saveRedirectsAlways(redirects, saveOk) == redirects \o << RootURL >>

\* lines 200-206: save, and redirect to "/" unless the save failed.
saveRedirects(redirects, saveOk) ==
  IF saveOk THEN redirects \o << RootURL >> ELSE redirects

handleGoogleCallback(held, c, state, code, exch, fetch, saveOk) ==
  LET finalize(info, userInfo, session) ==
        [ cookie |-> sessionSave(c, callbackValues(session.values, userInfo, state),
                                 CallbackMaxAge, saveOk),
          redirects |-> saveRedirects(exchangeRedirects(exch), saveOk),
          fetches |-> 1, gets |-> info.gets,
          profile |-> info.contents.obj, saves |-> 1, saved |-> saveOk,
          invalidState |-> info.invalidState, fault |-> FALSE ]
      fetched(info) ==
        IF info.fault
          THEN [ cookie |-> c, redirects |-> << >>, fetches |-> 1,
                 gets |-> 0, profile |-> EmptyObject, saves |-> 0, saved |-> FALSE,
                 invalidState |-> FALSE, fault |-> TRUE ]
          ELSE finalize(info, Unmarshal(info.contents), storeGet(c))
  IN
  IF tokenRejected(exch.token) THEN
    [ cookie |-> c, redirects |-> exchangeRedirects(exch), fetches |-> 0,
      gets |-> 0, profile |-> EmptyObject, saves |-> 0, saved |-> FALSE,
      invalidState |-> FALSE, fault |-> FALSE ]
  ELSE fetched(getUserInfo(held, state, exch.token, fetch))

\* The provider answers the userinfo request, and the cookie encoder is
\* run, only in a request that gets that far.
NotFetched == [kind |-> "none", contents |-> NilContents]

FetchFor(held, state, exch) ==
  IF ~tokenRejected(exch.token)
       /\ getUserInfo(held, state, exch.token, NotFetched).gets > 0
    THEN FetchResults
    ELSE { NotFetched }

SaveFor(exch) == IF tokenRejected(exch.token) THEN { FALSE } ELSE BOOLEAN

\* A callback clearing the held token once it has run.
callbackStateConsumed(held) == ""

\* lines 145-208, 212-215: neither handleGoogleCallback nor getUserInfo
\* assigns a.oauthStateString; the token stays as login left it.
callbackState(held) == held

\* The answer last is that of a callback which compared this same state
\* parameter with the header it read and found them equal: it called
\* getUserInfo, the comparison neither faulted nor differed.
Compared(last, u, state) ==
  /\ last.op = "callback"
  /\ last.user = u
  /\ last.fetches = 1
  /\ ~last.panicked
  /\ ~last.invalidState
  /\ last.state = state

callbackResp(u, state, exch, r) ==
  [ NoResp EXCEPT !.op = "callback", !.user = u, !.state = state,
                  !.redirects = r.redirects,
                  !.status = IF r.fault THEN 0 ELSE Status(r.redirects, FALSE),
                  !.panicked = r.fault,
                  !.exchanges = 1,
                  !.exchangeErr = exch.err,
                  !.tokenValid = Valid(exch.token),
                  !.fetches = r.fetches,
                  !.gets = r.gets,
                  !.profile = r.profile,
                  !.saves = r.saves,
                  !.saved = r.saved,
                  !.invalidState = r.invalidState ]


\* What a callback that has ended leaves in the history.
callbackTrail(u, state, answer) ==
  [ op |-> "callback", user |-> u,
    token |-> IF Compared(answer, u, state) THEN state ELSE "",
    ok |-> Compared(answer, u, state) ]

\* lines 146-161: the exchange and the validity check; a rejected token
\* ends the request, a valid one goes on to getUserInfo.
CallbackExchange(u) ==
  /\ requestAt[u].pc = "idle"
  /\ \E state \in StateParams, code \in Codes :
       \E exch \in Exchange(code) :
         \/ /\ tokenRejected(exch.token)
            /\ \E r \in { handleGoogleCallback(Header(oauthStateString, stateLen), cookie[u],
                                                state, code, exch, NotFetched, FALSE) } :
                 /\ cookie' = [cookie EXCEPT ![u] = r.cookie]
                 /\ resp' = callbackResp(u, state, exch, r)
            /\ requestAt' = Overlapped
            /\ Ended(Alone(u), callbackTrail(u, state, resp'))
         \/ /\ ~tokenRejected(exch.token)
            /\ requestAt' = Started(u, [Idle EXCEPT !.pc = "compare", !.state = state,
                                                    !.code = code, !.exch = exch,
                                                    !.todo = Words])
            /\ resp' = NoResp
            /\ Begun(u)
            /\ UNCHANGED cookie
  /\ UNCHANGED << oauthStateString, stateLen, latest, initiated >>

\* line 213: one word of the read of a.oauthStateString.
CallbackLoad(u) ==
  /\ requestAt[u].pc = "compare"
  /\ \E w \in requestAt[u].todo :
       requestAt' = [requestAt EXCEPT ![u] =
                     AfterWord([requestAt[u] EXCEPT
                                  !.data = IF w = "data" THEN oauthStateString ELSE @,
                                  !.loaded = IF w = "len" THEN stateLen ELSE @],
                               w, "finish")]
  /\ resp' = NoResp
  /\ UNCHANGED << oauthStateString, stateLen, cookie, latest, ended, before, initiated >>

\* lines 213-207: the comparison with the header read, the userinfo
\* request, the save and the redirect.
CallbackFinish(u) ==
  /\ requestAt[u].pc = "finish"
  /\ \E held \in { Header(requestAt[u].data, requestAt[u].loaded) } :
       \E fetch \in FetchFor(held, requestAt[u].state, requestAt[u].exch),
          saveOk \in SaveFor(requestAt[u].exch) :
         \E r \in { handleGoogleCallback(held, cookie[u], requestAt[u].state,
                                         requestAt[u].code, requestAt[u].exch, fetch, saveOk) } :
           /\ cookie' = [cookie EXCEPT ![u] = r.cookie]
           /\ resp' = callbackResp(u, requestAt[u].state, requestAt[u].exch, r)
  /\ oauthStateString' = callbackState(oauthStateString)
  /\ requestAt' = [requestAt EXCEPT ![u] = Idle]
  /\ Ended(requestAt[u].alone, callbackTrail(u, requestAt[u].state, resp'))
  /\ UNCHANGED << stateLen, latest, initiated >>

(***************************************************************************)
(* The requests the server runs, each statement a step of its own.         *)
(***************************************************************************)
Next ==
  \/ \E u \in Users :
       \/ LoginGenerate(u)
       \/ LoginStore(u)
       \/ LoginLoad(u)
       \/ LoginRedirect(u)
  \/ \E u \in Observed :
       \/ CallbackExchange(u)
       \/ CallbackLoad(u)
       \/ CallbackFinish(u)
       \/ Logout(u)
       \/ Protected(u)

Spec == Init /\ [][Next]_vars

(***************************************************************************)
(* Reading a cookie as the claims speak of it: the session a user agent    *)
(* presents, and the value it holds under a key.                           *)
(***************************************************************************)
Absent == [type |-> "absent"]

Held(c, key) ==
  IF c.kind = "valid" /\ key \in DOMAIN c.values THEN c.values[key] ELSE Absent

HoldsTrue(c) == Held(c, "authenticated") = [type |-> "bool", b |-> TRUE]
HoldsFalse(c) == Held(c, "authenticated") = [type |-> "bool", b |-> FALSE]

EmptyString == [type |-> "string", s |-> ""]

\* The answer is that of a callback which compared its state parameter with
\* the header it read and found them equal.
Passed(answer) == Compared(answer, answer.user, answer.state)

\* The header holds this token whole.
Holds(token) == oauthStateString = token /\ stateLen = Len(token)

\* C1: a callback that finds its state different from the held token saves
\* nothing and leaves every session as it was, whatever the code and the
\* exchange give.
C1_StateMismatchRejected ==
  [][ (resp'.op = "callback" /\ resp'.invalidState)
        => (cookie' = cookie /\ ~resp'.saved) ]_vars

\* C2: an authenticated session has a non-empty id and email, and a session
\* becomes authenticated only in a callback of its owner that found its
\* state equal to the held token and whose profile supplied the id and
\* email it stores.
C2_SessionInvariant ==
  /\ [](\A u \in Users :
          HoldsTrue(cookie[u]) =>
            /\ Held(cookie[u], "id") \notin { Absent, EmptyString }
            /\ Held(cookie[u], "email") \notin { Absent, EmptyString })
  /\ [][ \A u \in Users :
           (HoldsTrue(cookie'[u]) /\ cookie'[u] # cookie[u]) =>
             /\ resp'.op = "callback"
             /\ resp'.user = u
             /\ Passed(resp')
             /\ "id" \in DOMAIN resp'.profile
             /\ "email" \in DOMAIN resp'.profile
             /\ Held(cookie'[u], "id") = [type |-> "string", s |-> resp'.profile["id"]]
             /\ Held(cookie'[u], "email") = [type |-> "string", s |-> resp'.profile["email"]]
     ]_vars

\* C3: the wrapped operation is invoked only for a session that holds
\* authenticated as the boolean true; every other protected call is
\* answered Forbidden without invoking it.
C3_GateFailClosed ==
  resp.op = "protected" =>
    /\ resp.invoked => HoldsTrue(cookie[resp.user])
    /\ ~HoldsTrue(cookie[resp.user]) =>
         (~resp.invoked /\ resp.status = 403)

C3_Witness ==
  /\ resp.op = "protected"
  /\ Held(cookie[resp.user], "authenticated") = [type |-> "string", s |-> "true"]
  /\ ~resp.invoked
  /\ resp.status = 403

\* C4: a callback that finds its state equal to the held token, for which
\* the provider gives a valid token and a profile and the save succeeds,
\* leaves the requester's session authenticated with the profile's id, email
\* and name, the state, and a max-age of 8 hours; a protected call
\* presenting an authenticated session invokes the wrapped operation.
C4_HappyPath ==
  [][ /\ ( /\ resp'.op = "callback"
           /\ Passed(resp')
           /\ resp'.tokenValid
           /\ "id" \in DOMAIN resp'.profile
           /\ resp'.saved )
        => LET c == cookie'[resp'.user] IN
             /\ HoldsTrue(c)
             /\ Held(c, "id") = [type |-> "string", s |-> resp'.profile["id"]]
             /\ Held(c, "email") = [type |-> "string", s |-> resp'.profile["email"]]
             /\ Held(c, "fullname") = [type |-> "string", s |-> resp'.profile["name"]]
             /\ Held(c, "state") = [type |-> "string", s |-> resp'.state]
             /\ c.maxAge = 8 * 3600
      /\ (resp'.op = "protected" /\ HoldsTrue(cookie[resp'.user]))
        => (resp'.invoked /\ resp'.status = 200)
    ]_vars

C4_Witness ==
  /\ resp.op = "protected"
  /\ resp.invoked
  /\ latest.any
  /\ latest.token # ""
  /\ Holds(latest.token)
  /\ Held(cookie[resp.user], "state") = [type |-> "string", s |-> oauthStateString]
  /\ Held(cookie[resp.user], "id") = [type |-> "string", s |-> "42"]
  /\ Held(cookie[resp.user], "email") = [type |-> "string", s |-> "a@b.com"]
  /\ cookie[resp.user].maxAge = 28800

\* C5: a callback whose code exchange fails calls neither getUserInfo nor
\* the session save and leaves every session as it was.
C5_ExchangeFailureShortCircuits ==
  [][ (resp'.op = "callback" /\ resp'.exchangeErr)
        => /\ resp'.fetches = 0
           /\ resp'.gets = 0
           /\ resp'.saves = 0
           /\ cookie' = cookie ]_vars

C5_Witness ==
  /\ resp.op = "callback"
  /\ resp.exchangeErr
  /\ latest.any
  /\ latest.token = resp.state
  /\ resp.state # ""
  /\ Holds(resp.state)
  /\ resp.redirects = << RootURL >>

\* C6: a callback that carries the token the latest login issued, no
\* other request having run during that login and no other login having
\* begun since, finds its state equal to the held token whenever it comes
\* to compare them.
C6_StateRoundTrip ==
  [][ (resp'.op = "callback" /\ latest.any /\ resp'.state = latest.token
         /\ resp'.fetches = 1)
        => (~resp'.invalidState /\ ~resp'.panicked) ]_vars

C6_Witness ==
  /\ resp.op = "callback"
  /\ Passed(resp)
  /\ resp.state # ""
  /\ latest.any
  /\ latest.token = resp.state
  /\ latest.user = resp.user
  /\ Holds(resp.state)

\* C7: a logout whose save succeeds leaves authenticated false; a session
\* holding false is answered Forbidden, and it holds true again only
\* through a callback of its owner that saves.
C7_LogoutRevokes ==
  [][ /\ (resp'.op = "logout" /\ resp'.saved) => HoldsFalse(cookie'[resp'.user])
      /\ (resp'.op = "protected" /\ HoldsFalse(cookie[resp'.user]))
           => (~resp'.invoked /\ resp'.status = 403)
      /\ \A u \in Users :
           (HoldsFalse(cookie[u]) /\ HoldsTrue(cookie'[u]))
             => (resp'.op = "callback" /\ resp'.user = u /\ resp'.saved)
    ]_vars

C7_Witness ==
  /\ resp.op = "protected"
  /\ resp.status = 403
  /\ HoldsFalse(cookie[resp.user])
  /\ Held(cookie[resp.user], "id") = [type |-> "string", s |-> "42"]

\* C8: when the login of one user agent and then the login of another have
\* run, each with its own token and one after the other, and the first user
\* agent then sends a callback carrying the token of its login, the held
\* token is that of the second login, the callback finds its state
\* different, saves nothing and leaves every session as it was; a callback
\* carrying the second login's token finds it equal.
C8_InterleavedLogins ==
  [][ (resp'.op = "callback" /\ resp'.fetches = 1
         /\ ended.op = "login" /\ before.any /\ before.op = "login")
        => /\ Holds(ended.token)
           /\ ( /\ resp'.user = before.user
                /\ resp'.state = before.token
                /\ before.token # ended.token )
                => /\ resp'.invalidState
                   /\ ~resp'.saved
                   /\ cookie' = cookie
           /\ resp'.state = ended.token => Passed(resp')
    ]_vars

\* C9: a login whose random source fails stores no token and does not
\* redirect to the provider.
C9_EntropyFailureFatal ==
  [][ /\ \A u \in Users :
           (requestAt[u].pc = "store" /\ requestAt[u].err
              /\ requestAt'[u].todo # requestAt[u].todo)
             => (oauthStateString' = oauthStateString /\ stateLen' = stateLen)
      /\ (resp'.op = "login" /\ resp'.err) => resp'.redirects = << >> ]_vars

\* C10: a callback or logout whose session save fails redirects nowhere, and
\* one whose save succeeds redirects exactly once, to "/".
C10_SaveFailureHalts ==
  (resp.op \in { "callback", "logout" } /\ resp.saves > 0) =>
    IF resp.saved
      THEN resp.redirects = << RootURL >> /\ resp.status = 307
      ELSE resp.redirects = << >> /\ resp.status # 307

C10_Witness ==
  /\ resp.op = "callback"
  /\ resp.saves = 1
  /\ ~resp.saved
  /\ resp.tokenValid
  /\ Passed(resp)
  /\ resp.state # ""

\* C11 as claimed: every callback answers with one 307 redirect to "/".
C11_UniformRedirect ==
  resp.op = "callback" =>
    (resp.redirects = << RootURL >> /\ resp.status = 307)

\* C11: a callback redirects at most once, and only to "/" with 307; it
\* answers without any redirect exactly when the exchange gave a token that
\* is not valid or when the session save failed, and it gives no answer at
\* all when the comparison of the state faults on a torn header, which only
\* overlapping logins produce.
C11_RedirectUnlessStopped ==
  resp.op = "callback" =>
    /\ resp.redirects \in { << >>, << RootURL >> }
    /\ (resp.redirects = << >>)
         <=> \/ (~resp.exchangeErr /\ ~resp.tokenValid)
             \/ (resp.saves > 0 /\ ~resp.saved)
             \/ resp.panicked
    /\ (resp.redirects = << RootURL >>) => resp.status = 307
    /\ (resp.redirects = << >> /\ ~resp.panicked) => resp.status = 200
    /\ resp.panicked => (resp.status = 0 /\ resp.tokenValid /\ resp.saves = 0)

C11_Witness ==
  /\ resp.op = "callback"
  /\ ~resp.exchangeErr
  /\ ~resp.tokenValid
  /\ resp.redirects = << >>
  /\ resp.status = 200

\* C12: a logout leaves authenticated false whenever its save succeeds; a
\* logout of a session that already holds false, and so the second of two
\* logouts of one user agent, leaves the session exactly as it was, still
\* with authenticated false, and redirects to "/" when its own save
\* succeeds.
C12_LogoutIdempotent ==
  [][ /\ (resp'.op = "logout" /\ resp'.saved) => HoldsFalse(cookie'[resp'.user])
      /\ ( /\ resp'.op = "logout"
           /\ \/ HoldsFalse(cookie[resp'.user])
              \/ (ended.op = "logout" /\ ended.ok /\ ended.user = resp'.user) )
           => /\ cookie' = cookie
              /\ HoldsFalse(cookie'[resp'.user])
              /\ resp'.saved => resp'.redirects = << RootURL >> ]_vars

C12_Witness ==
  /\ resp.op = "logout"
  /\ resp.saved
  /\ before.any
  /\ before.op = "logout"
  /\ before.user = resp.user
  /\ HoldsFalse(cookie[resp.user])
  /\ resp.redirects = << RootURL >>

\* The session values other than authenticated.
OtherValues(c) ==
  [ k \in { "id", "email", "fullname", "state" } |-> Held(c, k) ]

\* C13: a logout leaves the id, email, fullname and state values of every
\* session as they were, adds no key other than authenticated, and leaves
\* the held state token as it was.
C13_LogoutFrame ==
  [][ resp'.op = "logout"
        => /\ \A u \in Users : OtherValues(cookie'[u]) = OtherValues(cookie[u])
           /\ \A u \in Users :
                cookie'[u].kind = "valid" =>
                  DOMAIN cookie'[u].values \subseteq
                    (DOMAIN storeGet(cookie[u]).values \cup { "authenticated" })
           /\ oauthStateString' = oauthStateString
           /\ stateLen' = stateLen ]_vars

C13_Witness ==
  /\ resp.op = "logout"
  /\ resp.saved
  /\ HoldsFalse(cookie[resp.user])
  /\ Held(cookie[resp.user], "id") = Str(UserProfile.id)
  /\ Held(cookie[resp.user], "state") = Str(oauthStateString)
  /\ oauthStateString # ""

\* C14: the code exchange is invoked in a callback only when the state
\* parameter equals the held token; a callback that finds its state
\* different has invoked no exchange.
C14_ValidationPrecedesExchange ==
  (resp.op = "callback" /\ resp.invalidState) => resp.exchanges = 0

\* C15 as claimed: a callback that repeats the state the callback before it
\* found equal to the held token, no other request running meanwhile,
\* finds it different.
C15_ConsumedOnce ==
  [][ (resp'.op = "callback" /\ resp'.fetches = 1
         /\ ended.op = "callback" /\ ended.ok /\ ended.token # ""
         /\ resp'.state = ended.token)
        => resp'.invalidState ]_vars

\* C15: a callback leaves the held token as it was, so a callback that
\* repeats the state the callback before it found equal to the held token,
\* no other request running meanwhile, finds it equal again.
C15_TokenKept ==
  [][ resp'.op = "callback"
        => /\ oauthStateString' = oauthStateString
           /\ stateLen' = stateLen
           /\ (resp'.fetches = 1 /\ ended.op = "callback" /\ ended.ok
                 /\ resp'.state = ended.token)
                => Passed(resp') ]_vars

C15_Witness ==
  /\ resp.op = "callback"
  /\ before.any
  /\ before.op = "callback"
  /\ before.token = resp.state
  /\ resp.state # ""
  /\ Passed(resp)
  /\ resp.saved
  /\ HoldsTrue(cookie[resp.user])

\* C16: a callback whose token is valid and which finds its state equal to
\* the held token, but whose profile request failed or returned an
\* undecodable body, saves no session and leaves every session as it was.
C16_NoProfileNoSession ==
  [][ (resp'.op = "callback" /\ resp'.tokenValid /\ Passed(resp')
         /\ resp'.gets = 1
         /\ "id" \notin DOMAIN resp'.profile)
        => (resp'.saves = 0 /\ cookie' = cookie) ]_vars

\* C17: a callback whose exchange succeeds with a token that is not valid
\* calls neither getUserInfo nor the session save and leaves every session
\* as it was.
C17_InvalidTokenStops ==
  [][ (resp'.op = "callback" /\ ~resp'.exchangeErr /\ ~resp'.tokenValid)
        => /\ resp'.fetches = 0 /\ resp'.gets = 0 /\ resp'.saves = 0
           /\ cookie' = cookie ]_vars

C17_Witness ==
  /\ resp.op = "callback"
  /\ resp.exchanges = 1
  /\ ~resp.exchangeErr
  /\ ~resp.tokenValid
  /\ latest.any
  /\ latest.token = resp.state
  /\ resp.state # ""
  /\ Holds(resp.state)
  /\ resp.fetches = 0
  /\ resp.saves = 0

\* The five keys the callback writes.
FullFieldSet == { "authenticated", "id", "fullname", "email", "state" }

\* C18 as claimed: a session cookie is written only by a callback, and then
\* with the full field set.
C18_OnlyCallbackWrites ==
  [][ \A u \in Users :
        cookie'[u] # cookie[u] =>
          /\ resp'.op = "callback"
          /\ resp'.user = u
          /\ FullFieldSet \subseteq DOMAIN cookie'[u].values ]_vars

\* C18: a session cookie is written only by a callback or a logout of its
\* owner whose save succeeds. The callback writes the full field set, each
\* of the five as a value of its type, in that one save. The logout writes
\* the loaded values with authenticated false, which on a request with no
\* session, or with an undecodable one, persists a session holding
\* authenticated alone.
C18_WritersOfSession ==
  [][ \A u \in Users :
        cookie'[u] # cookie[u] =>
          /\ resp'.user = u
          /\ resp'.saves = 1
          /\ resp'.saved
          /\ cookie'[u].kind = "valid"
          /\ \/ /\ resp'.op = "callback"
                /\ FullFieldSet \subseteq DOMAIN cookie'[u].values
                /\ HoldsTrue(cookie'[u])
                /\ \A k \in FullFieldSet \ { "authenticated" } :
                     cookie'[u].values[k].type = "string"
             \/ /\ resp'.op = "logout"
                /\ cookie'[u].values =
                     SetValue(storeGet(cookie[u]).values, "authenticated", Bool(FALSE))
                /\ cookie[u].kind # "valid" =>
                     DOMAIN cookie'[u].values = { "authenticated" } ]_vars

C18_Witness ==
  /\ resp.op = "logout"
  /\ resp.saved
  /\ ~before.any
  /\ cookie[resp.user].kind = "valid"
  /\ DOMAIN cookie[resp.user].values = { "authenticated" }
  /\ HoldsFalse(cookie[resp.user])

\* C19: a callback finds its state equal to the held token only if a login
\* has answered before it, and when the latest login ran with no other
\* request during it, only if the state is the token that login issued.
C19_NoValidationWithoutInitiate ==
  [][ (resp'.op = "callback" /\ Passed(resp'))
        => /\ initiated
           /\ latest.any => resp'.state = latest.token ]_vars

\* C20: the provider URL a login redirects to carries the token that same
\* login generated, whatever other logins run between its statements.
C20_LoginBindsOwnToken ==
  [][ \A u \in Users :
        (requestAt[u].pc = "redirect" /\ requestAt'[u].pc = "idle" /\ ~requestAt[u].err)
          => resp'.redirects = << AuthCodeURL(requestAt[u].state) >> ]_vars

====
